---- MODULE Spec2Model ----
(***************************************************************************)
(* Model of app.py: the Telegram bot that turns a /sql question into an    *)
(* SQL statement through a language model, runs it on the SQLite file      *)
(* Teste.db, renders the rows as a Markdown table, and transcribes voice   *)
(* messages.                                                               *)
(*                                                                         *)
(* Python strings are modelled as sequences of one-character strings, so   *)
(* that upper(), strip(), replace(), split() and the in test are         *)
(* computed character by character as CPython computes them.               *)
(***************************************************************************)
EXTENDS Integers, Sequences, FiniteSets, TLC

VARIABLES
    \* --- AI_SQL
    conteudo,      \* the model reply handed to the extraction step
    sql_query,     \* the statement extracted from conteudo
    sql_again,     \* the statement extracted from sql_query (SpecExtract)
    xpc,           \* SpecExtract: "idle" | "reply" | "extracted" | "fed_back"
    \* --- formatar_resultado
    resultado,     \* the rows handed to the formatter
    colunas,       \* the column names handed to it (<<>>: none given)
    tabela,        \* the text it returned
    fpc,           \* SpecFormat: "idle" | "input" | "formatted"
    \* --- sql_cmd, processar_com_tools, executar_sql
    bpc,           \* position of the handler / of the call in progress
    msg,           \* the Telegram message being handled: [id, text]
    pergunta,      \* sql_cmd's pergunta
    nchunks,       \* chunks of the model stream consumed so far
    ncalls,        \* tool calls of the current chunk gone through so far
    resposta,      \* content accumulated by processar_com_tools
    query,         \* executar_sql's parameter
    retorno,       \* the dict returned to the caller
    replies,       \* replies sent for msg, in order
    db,            \* Teste.db, committed: the rows of teste and its
                   \* AUTOINCREMENT counter
    txn,           \* the open connection's view of teste
    exc,           \* exception in flight inside executar_sql
    openConns,     \* sqlite3 connections opened and not closed
    \* --- history of the call and message in progress
    connects,      \* sqlite3.connect calls made by the current executar_sql
    dbAtCall,      \* db when the current executar_sql was entered
    written,       \* teste after the writes that returned a status so far
    errors,        \* errors of the taxonomy met while handling msg
    replyFailed,   \* bot.reply_to raised while handling msg
    \* --- handle_voice
    vpc,           \* position of the handler
    vmsg,          \* id of the voice message being handled
    ogg_path,      \* None or the path of the temporary .ogg file
    wav_path,      \* None or the path of the .wav file
    files,         \* temporary files of this message that exist on disk
    returncode,    \* exit status of ffmpeg
    wavSize,       \* "absent" | "empty" | "data": what ffmpeg left at wav_path
    vreplies,      \* replies sent for the voice message, in order
    propagating,   \* an exception is on its way out of the handler
    created,       \* history: temporary files created for this message
    vReplyFailed   \* history: bot.reply_to raised while handling it

extractVars == <<conteudo, sql_query, sql_again, xpc>>
fmtVars == <<resultado, colunas, tabela, fpc>>
botVars == <<bpc, msg, pergunta, nchunks, ncalls, resposta, query, retorno, replies, db,
             txn, exc, openConns, connects, dbAtCall, written, errors, replyFailed>>
voiceVars == <<vpc, vmsg, ogg_path, wav_path, files, returncode, wavSize, vreplies,
               propagating, created, vReplyFailed>>
vars == <<extractVars, fmtVars, botVars, voiceVars>>

\* No dict returned yet.
NoReturn == [pending |-> TRUE]

\* Teste.db right after the module-level CREATE TABLE IF NOT EXISTS on a
\* fresh file (lines 75-85).
EmptyDb == [rows |-> <<>>, seq |-> 0]

ExtractIdle ==
    /\ conteudo = <<>>
    /\ sql_query = <<>>
    /\ sql_again = <<>>
    /\ xpc = "idle"

FmtIdle ==
    /\ resultado = <<>>
    /\ colunas = <<>>
    /\ tabela = <<>>
    /\ fpc = "idle"

BotIdle ==
    /\ bpc = "off"
    /\ msg = [id |-> 0, text |-> <<>>]
    /\ pergunta = <<>>
    /\ nchunks = 0
    /\ ncalls = 0
    /\ resposta = <<>>
    /\ query = <<>>
    /\ retorno = NoReturn
    /\ replies = <<>>
    /\ db = EmptyDb
    /\ txn = EmptyDb
    /\ exc = "none"
    /\ openConns = 0
    /\ connects = 0
    /\ dbAtCall = EmptyDb
    /\ written = EmptyDb
    /\ errors = {}
    /\ replyFailed = FALSE

\* Python's None for a path.
None == <<>>

VoiceIdle ==
    /\ vpc = "off"
    /\ vmsg = 0
    /\ ogg_path = None
    /\ wav_path = None
    /\ files = {}
    /\ returncode = 0
    /\ wavSize = "absent"
    /\ vreplies = <<>>
    /\ propagating = FALSE
    /\ created = {}
    /\ vReplyFailed = FALSE

-----------------------------------------------------------------------------
(* Python str primitives                                                   *)

Lowercase == <<"a", "b", "c", "d", "e", "f", "g", "h", "i", "j", "k", "l", "m", "n", "o", "p", "q", "r", "s", "t", "u", "v", "w", "x", "y", "z">>
Uppercase == <<"A", "B", "C", "D", "E", "F", "G", "H", "I", "J", "K", "L", "M", "N", "O", "P", "Q", "R", "S", "T", "U", "V", "W", "X", "Y", "Z">>

\* str.upper() on one character (ASCII letters; every other character of
\* the model's alphabet is its own upper case).
UpperChar(c) ==
    IF \E i \in DOMAIN Lowercase : Lowercase[i] = c
    THEN Uppercase[CHOOSE i \in DOMAIN Lowercase : Lowercase[i] = c]
    ELSE c

Upper(s) == [i \in 1..Len(s) |-> UpperChar(s[i])]

\* The characters str.strip() removes (ASCII whitespace).
Whitespace == {" ", "\t", "\n", "\r"}

\* t occurs in s at position i.
OccursAt(s, t, i) ==
    /\ i >= 1
    /\ i + Len(t) - 1 <= Len(s)
    /\ \A k \in 1..Len(t) : s[i + k - 1] = t[k]

\* (t in s) for a non-empty t.
Contains(s, t) == \E i \in 1..Len(s) : OccursAt(s, t, i)

\* s.startswith(t)
StartsWith(s, t) == OccursAt(s, t, 1)

\* s.strip()
Strip(s) ==
    LET keep == {i \in 1..Len(s) : s[i] \notin Whitespace}
    IN  IF keep = {} THEN <<>>
        ELSE LET lo == CHOOSE i \in keep : \A j \in keep : i <= j
                 hi == CHOOSE i \in keep : \A j \in keep : i >= j
             IN  SubSeq(s, lo, hi)

\* s.find(t, i - 1) + 1: the first position at or after i where t occurs,
\* 0 when there is none.
FindFrom(s, t, i) ==
    LET at == {k \in i..Len(s) : OccursAt(s, t, k)}
    IN  IF at = {} THEN 0 ELSE CHOOSE k \in at : \A m \in at : k <= m

\* s.replace(old, new): non-overlapping occurrences, left to right, one pass.
RECURSIVE ReplaceFrom(_, _, _, _)
ReplaceFrom(s, old, new, i) ==
    LET k == FindFrom(s, old, i)
    IN  IF k = 0 THEN SubSeq(s, i, Len(s))
        ELSE SubSeq(s, i, k - 1) \o new \o ReplaceFrom(s, old, new, k + Len(old))

Replace(s, old, new) == ReplaceFrom(s, old, new, 1)

\* s.split(sep): the segments between non-overlapping occurrences of sep,
\* scanned left to right; always at least one segment.
RECURSIVE SplitFrom(_, _, _)
SplitFrom(s, sep, i) ==
    LET k == FindFrom(s, sep, i)
    IN  IF k = 0 THEN <<SubSeq(s, i, Len(s))>>
        ELSE <<SubSeq(s, i, k - 1)>> \o SplitFrom(s, sep, k + Len(sep))

Split(s, sep) == SplitFrom(s, sep, 1)

-----------------------------------------------------------------------------
(* AI_SQL: extraction of the statement from the model reply                *)

\* The backtick character U+0060 (the TLA+ lexer does not accept it inside a
\* string literal, so it is named).
Backtick == "U+0060"

Fence == <<Backtick, Backtick, Backtick>>
KwSelect == <<"S", "E", "L", "E", "C", "T">>
KwInsert == <<"I", "N", "S", "E", "R", "T">>
KwUpdate == <<"U", "P", "D", "A", "T", "E">>
KwDelete == <<"D", "E", "L", "E", "T", "E">>
TagLower == <<"s", "q", "l">>
TagUpper == <<"S", "Q", "L">>

\* any(x in p_upper for x in ["SELECT", "INSERT", "UPDATE", "DELETE"])
HasKeyword(p) ==
    LET p_upper == Upper(p)
    IN  \E x \in {KwSelect, KwInsert, KwUpdate, KwDelete} : Contains(p_upper, x)

\* p.replace("sql", "").replace("SQL", "").strip()
CleanSegment(p) == Strip(Replace(Replace(p, TagLower, <<>>), TagUpper, <<>>))

\* ExtractSql with the loop keeping the last matching segment instead of
\* returning at the first one.
ExtractSqlLastMatch(reply) ==
    IF Contains(reply, Fence)
    THEN LET partes == Split(reply, Fence)
             hits == {i \in DOMAIN partes : HasKeyword(partes[i])}
         IN  IF hits # {}
             THEN CleanSegment(partes[CHOOSE i \in hits : \A j \in hits : i >= j])
             ELSE Strip(reply)
    ELSE Strip(reply)

\* Lines 185-198: the statement AI_SQL hands to executar_sql.
ExtractSql(reply) ==
    IF Contains(reply, Fence)
    THEN LET partes == Split(reply, Fence)
             hits == {i \in DOMAIN partes : HasKeyword(partes[i])}
         IN  IF hits # {}
             THEN CleanSegment(partes[CHOOSE i \in hits : \A j \in hits : i <= j])
             ELSE Strip(reply)
    ELSE Strip(reply)

-----------------------------------------------------------------------------
(* Specification SpecExtract: the extraction step applied to a reply, and  *)
(* then to its own output                                                  *)

\* Number of fragments a reply is put together from.
MaxFrags == 4

\* An inline code span around the tag, as models write it in prose.
InlineTag == <<Backtick>> \o TagLower \o <<Backtick>>

Fragments ==
    { Fence, TagLower, TagUpper, InlineTag, <<"s","e","l","e","c","t">>,
      KwDelete, <<" ">>, <<Backtick>>, <<"s">>, <<"q","l">> }

RECURSIVE Concat(_)
Concat(ss) == IF ss = <<>> THEN <<>> ELSE Head(ss) \o Concat(Tail(ss))

\* The reply is n fragments in a row.
IsReplyOf(r, n) == \E fs \in [1..n -> Fragments] : r = Concat(fs)

InitExtract ==
    /\ \E n \in 0..MaxFrags : IsReplyOf(conteudo, n)
    /\ sql_query = <<>>
    /\ sql_again = <<>>
    /\ xpc = "reply"
    /\ FmtIdle
    /\ BotIdle
    /\ VoiceIdle

\* Lines 185-198 on the reply.
Extract ==
    /\ xpc = "reply"
    /\ sql_query' = ExtractSql(conteudo)
    /\ xpc' = "extracted"
    /\ UNCHANGED <<conteudo, sql_again, fmtVars, botVars, voiceVars>>

\* Lines 185-198 on the statement the first pass extracted.
FeedBack ==
    /\ xpc = "extracted"
    /\ sql_again' = ExtractSql(sql_query)
    /\ xpc' = "fed_back"
    /\ UNCHANGED <<conteudo, sql_query, fmtVars, botVars, voiceVars>>

NextExtract == Extract \/ FeedBack

SpecExtract == InitExtract /\ [][NextExtract]_vars

\* The segments of a reply that contain a keyword, by position.
MatchingSegments(r) ==
    {i \in DOMAIN Split(r, Fence) : HasKeyword(Split(r, Fence)[i])}

FirstMatching(r) ==
    CHOOSE i \in MatchingSegments(r) : \A j \in MatchingSegments(r) : i <= j

\* C1 as stated: the reply is split on the fence (a reply without a fence
\* being one segment), and the statement is the first segment containing a
\* keyword with "sql" and "SQL" removed and trimmed, the whole trimmed reply
\* only when no segment contains a keyword.
C1_FirstSegmentEvenWithoutFence ==
    xpc = "extracted" =>
        sql_query =
            IF MatchingSegments(conteudo) # {}
            THEN Strip(Replace(Replace(Split(conteudo, Fence)[FirstMatching(conteudo)],
                                       TagLower, <<>>), TagUpper, <<>>))
            ELSE Strip(conteudo)

\* C1 amended: when the reply contains the fence and some segment contains
\* a keyword, the statement is the first such segment with "sql" and "SQL"
\* removed and trimmed; when the reply has no fence, or no segment contains
\* a keyword, the statement is the whole reply trimmed, tag left in place.
C1_FirstSegmentOfFencedReply ==
    xpc = "extracted" =>
        sql_query =
            IF Len(Split(conteudo, Fence)) > 1 /\ MatchingSegments(conteudo) # {}
            THEN Strip(Replace(Replace(Split(conteudo, Fence)[FirstMatching(conteudo)],
                                       TagLower, <<>>), TagUpper, <<>>))
            ELSE Strip(conteudo)

\* A fenced reply with two matching segments that clean to different
\* statements, the first one carrying the tag.
C1_Witness ==
    /\ xpc = "extracted"
    /\ Cardinality(MatchingSegments(conteudo)) >= 2
    /\ Contains(Split(conteudo, Fence)[FirstMatching(conteudo)], TagLower)
    /\ \E i \in MatchingSegments(conteudo) :
           CleanSegment(Split(conteudo, Fence)[i]) # sql_query
    /\ sql_query # Strip(conteudo)

\* C2 as stated: extraction applied to its own output returns that output.
C2_ExtractionIdempotent ==
    xpc = "fed_back" => sql_again = sql_query

-----------------------------------------------------------------------------
(* formatar_resultado: rows to Markdown table                              *)

\* The sign U+26A0 U+FE0F that opens the truncation notice, and the cross
\* mark U+274C that opens an error reply.
WarnSign == "U+26A0"
CrossMark == "U+274C"

\* Python values that reach the formatter as cells.
PyStr(chars) == [t |-> "str", n |-> 0, s |-> chars]
PyInt(k) == [t |-> "int", n |-> k, s |-> <<>>]
PyNone == [t |-> "none", n |-> 0, s |-> <<>>]

DigitChars == <<"0", "1", "2", "3", "4", "5", "6", "7", "8", "9">>

\* str(k) for a non-negative int.
RECURSIVE StrNat(_)
StrNat(k) ==
    IF k < 10 THEN <<DigitChars[k + 1]>>
    ELSE StrNat(k \div 10) \o <<DigitChars[(k % 10) + 1]>>

\* str(c)
Str(c) ==
    CASE c.t = "str" -> c.s
      [] c.t = "int" -> IF c.n < 0 THEN <<"-">> \o StrNat(-c.n) ELSE StrNat(c.n)
      [] c.t = "none" -> <<"N", "o", "n", "e">>

\* A row of the result: a tuple (keys empty) or a dict (keys[i] maps to
\* cells[i], in insertion order).
TupleRow(cells) == [isdict |-> FALSE, keys |-> <<>>, cells |-> cells]
DictRow(keys, cells) == [isdict |-> TRUE, keys |-> keys, cells |-> cells]

\* str(item.get(c, "")) on a dict row.
GetStr(item, c) ==
    IF \E i \in DOMAIN item.keys : item.keys[i] = c
    THEN Str(item.cells[CHOOSE i \in DOMAIN item.keys : item.keys[i] = c])
    ELSE <<>>

\* sep.join(parts)
RECURSIVE Join(_, _)
Join(sep, parts) ==
    IF parts = <<>> THEN <<>>
    ELSE IF Len(parts) = 1 THEN parts[1]
    ELSE parts[1] \o sep \o Join(sep, Tail(parts))

LIMITE_RESULTADOS == 10

\* Lines 151-152: cell.replace("|", "\\|").replace("\n", " ")
EscapeCell(cell) ==
    Replace(Replace(cell, <<"|">>, <<"\\", "|">>), <<"\n">>, <<" ">>)

\* "| " + " | ".join(cells) + " |\n"
TableLine(cells) == <<"|", " ">> \o Join(<<" ", "|", " ">>, cells) \o <<" ", "|", "\n">>

RECURSIVE TableLines(_)
TableLines(linhas) ==
    IF linhas = <<>> THEN <<>>
    ELSE TableLine([j \in DOMAIN Head(linhas) |-> EscapeCell(Head(linhas)[j])])
         \o TableLines(Tail(linhas))

NoResultsMessage == <<"N", "e", "n", "h", "u", "m", " ", "r", "e", "s", "u", "l", "t", "a", "d", "o", " ", "e", "n", "c", "o", "n", "t", "r", "a", "d", "o", ".">>

TruncationNotice ==
    <<"\n", WarnSign>> \o <<" ", "M", "o", "s", "t", "r", "a", "n", "d", "o", " ", "a", "p", "e", "n", "a", "s", " ", "o", "s", " ", "p", "r", "i", "m", "e", "i", "r", "o", "s", " ">>
    \o StrNat(LIMITE_RESULTADOS) \o <<" ", "r", "e", "s", "u", "l", "t", "a", "d", "o", "s", ".">>

\* The header names: the first dict row's keys, else the given names, else
\* col1..colN for the first row's length (lines 138-143).
HeaderOf(rows, cols) ==
    IF rows[1].isdict THEN rows[1].keys
    ELSE IF cols = <<>>
         THEN [i \in 1..Len(rows[1].cells) |-> <<"c", "o", "l">> \o StrNat(i)]
         ELSE cols

\* linhas: every row as a list of str (lines 140, 144).
LinhasOf(rows, cols) ==
    IF rows[1].isdict
    THEN [r \in DOMAIN rows |->
            [j \in DOMAIN HeaderOf(rows, cols) |-> GetStr(rows[r], HeaderOf(rows, cols)[j])]]
    ELSE [r \in DOMAIN rows |->
            [j \in DOMAIN rows[r].cells |-> Str(rows[r].cells[j])]]

\* formatar_resultado truncating at one row fewer than the limit.
FormatarResultadoOffByOne(rows, cols) ==
    IF rows = <<>> THEN NoResultsMessage
    ELSE LET header == HeaderOf(rows, cols)
             todas == LinhasOf(rows, cols)
             truncado == Len(todas) >= LIMITE_RESULTADOS
             linhas == IF truncado THEN SubSeq(todas, 1, LIMITE_RESULTADOS - 1) ELSE todas
         IN  TableLine([j \in DOMAIN header |-> EscapeCell(header[j])])
             \o TableLine([j \in DOMAIN header |-> <<"-", "-", "-">>])
             \o TableLines(linhas)
             \o (IF truncado THEN TruncationNotice ELSE <<>>)

\* Lines 131-162.
FormatarResultado(rows, cols) ==
    IF rows = <<>> THEN NoResultsMessage
    ELSE LET header == HeaderOf(rows, cols)
             todas == LinhasOf(rows, cols)
             truncado == Len(todas) > LIMITE_RESULTADOS
             linhas == IF truncado THEN SubSeq(todas, 1, LIMITE_RESULTADOS) ELSE todas
         IN  TableLine([j \in DOMAIN header |-> EscapeCell(header[j])])
             \o TableLine([j \in DOMAIN header |-> <<"-", "-", "-">>])
             \o TableLines(linhas)
             \o (IF truncado THEN TruncationNotice ELSE <<>>)

-----------------------------------------------------------------------------
(* Specification SpecFormat: the formatter applied to one result           *)

\* Rows and columns of the results handed to the formatter.
MaxRows == 12
MaxCols == 2

\* Cell values, among them text with a pipe, a backslash before a pipe, a
\* line feed and a carriage return.
CellPool ==
    << PyStr(<<"A", "n", "a">>), PyInt(30), PyStr(<<"a", "|", "b">>), PyNone, PyStr(<<"x", "\\", "|", "y">>),
       PyStr(<<"l", "1", "\n", "l", "2">>), PyInt(7), PyStr(<<"c", "\r", "d">>), PyStr(<<>>) >>

NamePool == << <<"I", "d">>, <<"N", "o", "m", "e">>, <<"a", "|", "b">>, <<"n", "\r", "m">> >>

CellAt(r, j, off) == CellPool[((r + j + off) % Len(CellPool)) + 1]

Names(nc, off) == [j \in 1..nc |-> NamePool[((j + off) % Len(NamePool)) + 1]]

\* n tuple rows of nc cells.
TupleRows(n, nc, off) ==
    [r \in 1..n |-> TupleRow([j \in 1..nc |-> CellAt(r, j, off)])]

\* n dict rows over nc keys; with gap, every second row after the first
\* lacks the last key.
DictRows(n, nc, off, gap) ==
    [r \in 1..n |->
        IF gap /\ r > 1 /\ r % 2 = 0
        THEN DictRow(SubSeq(Names(nc, off), 1, nc - 1),
                     [j \in 1..(nc - 1) |-> CellAt(r, j, off)])
        ELSE DictRow(Names(nc, off), [j \in 1..nc |-> CellAt(r, j, off)])]

InitFormat ==
    /\ \E n \in 0..MaxRows, nc \in 1..MaxCols, off \in 0..(Len(CellPool) - 1) :
          \/ /\ resultado = TupleRows(n, nc, off)
             /\ colunas \in {<<>>, Names(nc, off)}
          \/ /\ \E gap \in BOOLEAN : resultado = DictRows(n, nc, off, gap)
             /\ colunas = <<>>
    /\ tabela = <<>>
    /\ fpc = "input"
    /\ ExtractIdle
    /\ BotIdle
    /\ VoiceIdle

Format ==
    /\ fpc = "input"
    /\ tabela' = FormatarResultado(resultado, colunas)
    /\ fpc' = "formatted"
    /\ UNCHANGED <<resultado, colunas, extractVars, botVars, voiceVars>>

NextFormat == Format

SpecFormat == InitFormat /\ [][NextFormat]_vars

\* The physical lines of a text: split at every line feed.
LinesOf(text) == Split(text, <<"\n">>)

\* The text of a row as the table shows it.
ShownCells(rows, cols, r) ==
    [j \in DOMAIN LinhasOf(rows, cols)[r] |->
        Replace(Replace(LinhasOf(rows, cols)[r][j], <<"|">>, <<"\\", "|">>),
                <<"\n">>, <<" ">>)]

ShownLine(cells) == <<"|", " ">> \o Join(<<" ", "|", " ">>, cells) \o <<" ", "|">>

NoticeLine ==
    <<WarnSign>> \o <<" ", "M", "o", "s", "t", "r", "a", "n", "d", "o", " ", "a", "p", "e", "n", "a", "s", " ", "o", "s", " ", "p", "r", "i", "m", "e", "i", "r", "o", "s", " ", "1", "0", " ", "r", "e", "s", "u", "l", "t", "a", "d", "o", "s", ".">>

\* C8: more than 10 rows give header, separator, exactly the first 10 rows
\* in input order and the notice naming 10; 1 to 10 rows give all rows and
\* no notice; no rows give the no-results message and no table.
C8_RowCap ==
    fpc = "formatted" =>
        LET n == Len(resultado)
            shown == IF n > 10 THEN 10 ELSE n
            lines == LinesOf(tabela)
        IN  IF n = 0
            THEN /\ tabela = <<"N", "e", "n", "h", "u", "m", " ", "r", "e", "s", "u", "l", "t", "a", "d", "o", " ", "e", "n", "c", "o", "n", "t", "r", "a", "d", "o", ".">>
                 /\ ~Contains(tabela, <<"|">>)
            ELSE /\ Len(lines) = IF n > 10 THEN shown + 4 ELSE shown + 3
                 /\ lines[1] = ShownLine([j \in DOMAIN HeaderOf(resultado, colunas) |->
                                            EscapeCell(HeaderOf(resultado, colunas)[j])])
                 /\ lines[2] = ShownLine([j \in DOMAIN HeaderOf(resultado, colunas) |-> <<"-", "-", "-">>])
                 /\ \A r \in 1..shown :
                        lines[r + 2] = ShownLine(ShownCells(resultado, colunas, r))
                 /\ lines[shown + 3] = <<>>
                 /\ IF n > 10
                    THEN lines[shown + 4] = NoticeLine
                    ELSE ~Contains(tabela, <<WarnSign>>)

\* A result of more than 10 rows, formatted, whose 10th and 11th rows differ.
C8_Witness ==
    /\ fpc = "formatted"
    /\ Len(resultado) > 10
    /\ resultado[10] # resultado[11]
    /\ Contains(tabela, <<WarnSign>>)

\* The column delimiters Markdown reads in a line: a pipe is a delimiter
\* unless the backslash before it escapes it; a backslash escapes the
\* character after it, another backslash included.
RECURSIVE DelimitersFrom(_, _)
DelimitersFrom(line, i) ==
    IF i > Len(line) THEN 0
    ELSE IF line[i] = "\\" /\ i < Len(line) /\ line[i + 1] \in {"\\", "|"}
         THEN DelimitersFrom(line, i + 2)
         ELSE (IF line[i] = "|" THEN 1 ELSE 0) + DelimitersFrom(line, i + 1)

Delimiters(line) == DelimitersFrom(line, 1)

\* C9 as stated: whatever the cell values, no rendered cell holds a pipe
\* that Markdown reads as a delimiter or a line-break character: the table
\* has one line per header, separator and shown row, each with as many
\* cells as the row had.
C9_CellsSafe ==
    (fpc = "formatted" /\ resultado # <<>>) =>
        LET shown == IF Len(resultado) > 10 THEN 10 ELSE Len(resultado)
            lines == LinesOf(tabela)
        IN  /\ ~Contains(tabela, <<"\r">>)
            /\ \A k \in 1..(shown + 2) :
                   Delimiters(lines[k]) = Len(HeaderOf(resultado, colunas)) + 1

-----------------------------------------------------------------------------
(* The SQLite engine behind sqlite3: the statements the model runs         *)

\* Successful INSERTs over a behaviour (bounds the AUTOINCREMENT counter).
MaxInserts == 2

\* Connections left unclosed at a time.
MaxUnclosed == 1

StmtSelectAll == <<"S", "E", "L", "E", "C", "T", " ", "*", " ", "F", "R", "O", "M", " ", "t", "e", "s", "t", "e">>
StmtSelectLower == <<"s", "e", "l", "e", "c", "t", " ", "*", " ", "f", "r", "o", "m", " ", "t", "e", "s", "t", "e">>
StmtInsert == <<"I", "N", "S", "E", "R", "T", " ", "I", "N", "T", "O", " ", "t", "e", "s", "t", "e", " ", "(", "N", "o", "m", "e", ",", " ", "I", "d", "a", "d", "e", ")", " ", "V", "A", "L", "U", "E", "S", " ", "(", "'", "A", "n", "a", "'", ",", " ", "3", "0", ")">>
StmtUpdate == <<"U", "P", "D", "A", "T", "E", " ", "t", "e", "s", "t", "e", " ", "S", "E", "T", " ", "I", "d", "a", "d", "e", " ", "=", " ", "3", "1">>
StmtDelete == <<"D", "E", "L", "E", "T", "E", " ", "F", "R", "O", "M", " ", "t", "e", "s", "t", "e">>
StmtValues == <<"V", "A", "L", "U", "E", "S", " ", "(", "1", ")">>
StmtNoTable == <<"S", "E", "L", "E", "C", "T", " ", "*", " ", "F", "R", "O", "M", " ", "n", "o", "p", "e">>
StmtTwo == <<"S", "E", "L", "E", "C", "T", " ", "1", ";", " ", "S", "E", "L", "E", "C", "T", " ", "2">>
StmtProse == <<"I", " ", "c", "a", "n", "n", "o", "t", " ", "h", "e", "l", "p", " ", "w", "i", "t", "h", " ", "t", "h", "a", "t">>

\* What SQLite makes of a statement: keywords and identifiers are matched
\* without regard to case, surrounding whitespace is skipped; anything the
\* model does not know is a syntax error, as is a missing table.
StmtKind(stmt) ==
    LET u == Upper(Strip(stmt))
    IN  CASE u = Upper(StmtSelectAll) -> "select"
          [] u = Upper(StmtInsert) -> "insert"
          [] u = Upper(StmtUpdate) -> "update"
          [] u = Upper(StmtDelete) -> "delete"
          [] u = Upper(StmtValues) -> "values"
          [] u = Upper(StmtTwo) -> "two_statements"
          [] OTHER -> "invalid"

\* The exceptions cur.execute can raise for a statement: sqlite3.Error for a
\* statement SQLite rejects; for two statements in one string, depending on
\* the Python version, sqlite3.Warning (not an sqlite3.Error, so caught at
\* line 126) or sqlite3.ProgrammingError (an sqlite3.Error, line 123).
Raises(stmt) ==
    CASE StmtKind(stmt) = "invalid" -> {"sqlite3.Error"}
      [] StmtKind(stmt) = "two_statements" -> {"sqlite3.Error", "Exception"}
      [] OTHER -> {}

\* teste after the statement ran on it.
Apply(stmt, t) ==
    CASE StmtKind(stmt) = "insert" ->
            [rows |-> Append(t.rows, <<PyInt(t.seq + 1), PyStr(<<"A", "n", "a">>), PyInt(30)>>),
             seq |-> t.seq + 1]
      [] StmtKind(stmt) = "update" ->
            [rows |-> [r \in DOMAIN t.rows |-> <<t.rows[r][1], t.rows[r][2], PyInt(31)>>],
             seq |-> t.seq]
      [] StmtKind(stmt) = "delete" -> [rows |-> <<>>, seq |-> t.seq]
      [] OTHER -> t

\* cur.fetchall() and the names in cur.description after the statement.
Fetched(stmt, t) ==
    CASE StmtKind(stmt) = "select" -> t.rows
      [] StmtKind(stmt) = "values" -> <<<<PyInt(1)>>>>
      [] OTHER -> <<>>

Description(stmt) ==
    CASE StmtKind(stmt) = "select" -> <<<<"I", "d">>, <<"N", "o", "m", "e">>, <<"I", "d", "a", "d", "e">>>>
      [] StmtKind(stmt) = "values" -> <<<<"c", "o", "l", "u", "m", "n", "1">>>>
      [] OTHER -> <<>>

-----------------------------------------------------------------------------
(* executar_sql                                                            *)

\* The guard testing only (not query).
EmptyQueryNoStrip(q) == q = <<>>

\* Line 106: not query or not query.strip()
EmptyQuery(q) == q = <<>> \/ Strip(q) = <<>>

\* The branch test without upper().
IsSelectCaseSensitive(q) == StartsWith(Strip(q), KwSelect)

\* Lines 112, 114: query.strip().upper().startswith("SELECT")
IsSelect(q) == StartsWith(Upper(Strip(q)), KwSelect)

\* Line 107
EmptyReturn == [erro |-> "Query vazia"]

\* Line 118
RowsReturn(q, cols, rows) == [query |-> q, colunas |-> cols, resultado |-> rows]

\* Line 122
StatusReturn(q) == [query |-> q, status |-> "Executado com sucesso"]

\* The handlers returning the dict without the erro key.
ErrorReturnNoKey(e, q) == [query |-> q]

\* Lines 123-128
ErrorReturn(e, q) ==
    IF e = "sqlite3.Error"
    THEN [erro |-> "Erro ao executar SQL", query |-> q]
    ELSE [erro |-> "Erro inesperado", query |-> q]

\* The positions inside executar_sql.
InExec == {"executar_sql", "connect", "execute", "commit", "exit_with", "return"}

\* A call is taken up only while the insert bound leaves room for it.
Admissible(q) == StmtKind(q) = "insert" => db.seq < MaxInserts

\* Entry into executar_sql(q) (line 104).
EnterExec(q) ==
    /\ Admissible(q)
    /\ query' = q
    /\ bpc' = "executar_sql"
    /\ retorno' = NoReturn
    /\ exc' = "none"
    /\ connects' = 0
    /\ dbAtCall' = db

\* Lines 106-107: the empty-query guard.
ExecGuard ==
    /\ bpc = "executar_sql"
    /\ IF EmptyQuery(query)
       THEN /\ retorno' = EmptyReturn
            /\ errors' = errors \cup {"EmptyInput"}
            /\ bpc' = "returned"
       ELSE /\ bpc' = "connect"
            /\ UNCHANGED <<retorno, errors>>
    /\ UNCHANGED <<msg, pergunta, nchunks, ncalls, resposta, query, replies, db, txn, exc,
                   openConns, connects, dbAtCall, written, replyFailed>>
    /\ UNCHANGED <<extractVars, fmtVars, voiceVars>>

\* Lines 110-111: with sqlite3.connect(DB_PATH) as conn; cur = conn.cursor()
ExecConnect ==
    /\ bpc = "connect"
    /\ openConns' = openConns + 1
    /\ connects' = connects + 1
    /\ txn' = db
    /\ bpc' = "execute"
    /\ UNCHANGED <<msg, pergunta, nchunks, ncalls, resposta, query, retorno, replies, db, exc,
                   dbAtCall, written, errors, replyFailed>>
    /\ UNCHANGED <<extractVars, fmtVars, voiceVars>>

\* Lines 112-120: the branch test and cur.execute(query); on the SELECT
\* branch also fetchall, the column names and the return value.  sqlite3
\* opens a transaction before INSERT, UPDATE and DELETE, so the statement
\* changes the connection's view only.
ExecExecute ==
    /\ bpc = "execute"
    /\ \/ /\ Raises(query) # {}
          /\ exc' \in Raises(query)
          /\ bpc' = "exit_with"
          /\ UNCHANGED <<txn, retorno>>
       \/ /\ Raises(query) = {}
          /\ txn' = Apply(query, txn)
          /\ IF IsSelect(query)
             THEN /\ retorno' = RowsReturn(query, Description(query), Fetched(query, txn))
                  /\ bpc' = "exit_with"
             ELSE /\ bpc' = "commit"
                  /\ UNCHANGED retorno
          /\ UNCHANGED exc
    /\ UNCHANGED <<msg, pergunta, nchunks, ncalls, resposta, query, replies, db,
                   openConns, connects, dbAtCall, written, errors, replyFailed>>
    /\ UNCHANGED <<extractVars, fmtVars, voiceVars>>

\* Lines 121-122: conn.commit() and the return value of the write branch.
ExecCommit ==
    /\ bpc = "commit"
    /\ db' = txn
    /\ retorno' = StatusReturn(query)
    /\ bpc' = "exit_with"
    /\ UNCHANGED <<msg, pergunta, nchunks, ncalls, resposta, query, replies, txn, exc,
                   openConns, connects, dbAtCall, written, errors, replyFailed>>
    /\ UNCHANGED <<extractVars, fmtVars, voiceVars>>

\* Leaving the with block (line 110) and, after an exception, the handlers
\* of lines 123-128.  The connection's context manager commits when the
\* block ended normally and rolls back when it raised; it does not close
\* the connection.
ExecExitWith ==
    /\ bpc = "exit_with"
    /\ IF exc = "none"
       THEN /\ db' = txn
            /\ UNCHANGED <<txn, retorno, errors>>
       ELSE /\ txn' = db
            /\ retorno' = ErrorReturn(exc, query)
            /\ errors' = errors \cup {"DatabaseError"}
            /\ UNCHANGED db
    /\ bpc' = "return"
    /\ UNCHANGED <<msg, pergunta, nchunks, ncalls, resposta, query, replies, exc,
                   openConns, connects, dbAtCall, written, replyFailed>>
    /\ UNCHANGED <<extractVars, fmtVars, voiceVars>>

\* The function returns and its frame drops conn and cur.  No line calls
\* conn.close(): whether the connection is closed at this point is up to
\* the runtime (reference counting finalizes it here; otherwise it stays
\* open until a later collection).
ExecReturn ==
    /\ bpc = "return"
    /\ \/ openConns' = openConns - 1
       \/ /\ openConns <= MaxUnclosed
          /\ UNCHANGED openConns
    /\ written' = IF "status" \in DOMAIN retorno THEN Apply(query, written) ELSE written
    /\ bpc' = "returned"
    /\ UNCHANGED <<msg, pergunta, nchunks, ncalls, resposta, query, retorno, replies, db, txn, exc,
                   connects, dbAtCall, errors, replyFailed>>
    /\ UNCHANGED <<extractVars, fmtVars, voiceVars>>

\* A later collection finalizes a connection that was left open.
Finalize ==
    /\ bpc \notin InExec
    /\ bpc # "off"
    /\ openConns > 0
    /\ openConns' = openConns - 1
    /\ UNCHANGED <<bpc, msg, pergunta, nchunks, ncalls, resposta, query, retorno, replies, db, txn,
                   exc, connects, dbAtCall, written, errors, replyFailed>>
    /\ UNCHANGED <<extractVars, fmtVars, voiceVars>>

-----------------------------------------------------------------------------
(* Specification SpecExec: a sequence of executar_sql calls                *)

Queries ==
    { <<>>, <<" ", " ", "\n">>, <<" ">>, StmtSelectAll, <<" ", " ">> \o StmtSelectLower, StmtInsert,
      StmtUpdate, StmtDelete, StmtValues, StmtNoTable, StmtTwo, StmtProse }

InitExec ==
    /\ bpc = "idle"
    /\ msg = [id |-> 0, text |-> <<>>]
    /\ pergunta = <<>>
    /\ nchunks = 0
    /\ ncalls = 0
    /\ resposta = <<>>
    /\ query = <<>>
    /\ retorno = NoReturn
    /\ replies = <<>>
    /\ db = EmptyDb
    /\ txn = EmptyDb
    /\ exc = "none"
    /\ openConns = 0
    /\ connects = 0
    /\ dbAtCall = EmptyDb
    /\ written = EmptyDb
    /\ errors = {}
    /\ replyFailed = FALSE
    /\ ExtractIdle
    /\ FmtIdle
    /\ VoiceIdle

\* executar_sql(q) is called, the previous call having returned.
ExecCall ==
    /\ bpc \in {"idle", "returned"}
    /\ \E q \in Queries : EnterExec(q)
    /\ errors' = {}
    /\ UNCHANGED <<msg, pergunta, nchunks, ncalls, resposta, replies, db, txn,
                   openConns, written, replyFailed>>
    /\ UNCHANGED <<extractVars, fmtVars, voiceVars>>

NextExec ==
    \/ ExecCall
    \/ ExecGuard
    \/ ExecConnect
    \/ ExecExecute
    \/ ExecCommit
    \/ ExecExitWith
    \/ ExecReturn
    \/ Finalize

SpecExec == InitExec /\ [][NextExec]_vars

\* The string is empty or holds whitespace only.
Blank(q) == \A i \in DOMAIN q : q[i] \in Whitespace

\* The trimmed, uppercased statement starts with SELECT.
SelectStatement(q) ==
    \E i \in DOMAIN q :
        /\ \A k \in 1..(i - 1) : q[k] \in Whitespace
        /\ OccursAt(Upper(q), KwSelect, i)

C4_EmptyQueryGuard ==
    (bpc \in InExec \cup {"returned"} /\ Blank(query)) =>
        /\ bpc \in {"executar_sql", "returned"}
        /\ connects = 0
        /\ db = dbAtCall
        /\ bpc = "returned" => DOMAIN retorno = {"erro"}

\* A whitespace-only query answered with the error, teste holding a row.
C4_Witness ==
    /\ bpc = "returned"
    /\ query # <<>>
    /\ Blank(query)
    /\ "erro" \in DOMAIN retorno
    /\ db.rows # <<>>

\* C7 as stated: a call that passed the guard opened one connection of its
\* own, and when a call has returned no connection it opened is still open
\* and no transaction is pending.
C7_ConnectionClosedOnReturn ==
    bpc = "returned" =>
        /\ ~Blank(query) => connects = 1
        /\ openConns = 0
        /\ txn = db

-----------------------------------------------------------------------------
(* processar_com_tools, AI_SQL and the /sql handler                        *)

\* Messages handled over a behaviour, chunks per model stream and tool
\* calls per chunk.
MaxMsgs == 2
MaxChunks == 2
MaxCalls == 2

CheckMark == "U+2705"
InfoSign == "U+2139"

\* The arguments of a tool call: a dict (with or without the key
\* pergunta), a str to be decoded, or no arguments entry at all.
DictArgs(has, value) == [kind |-> "dict", has |-> has, pergunta |-> value, text |-> <<>>]
StrArgs(text) == [kind |-> "str", has |-> FALSE, pergunta |-> <<>>, text |-> text]
NoArgs == [kind |-> "absent", has |-> FALSE, pergunta |-> <<>>, text |-> <<>>]

JsonQuestion == <<"{", "\"", "p", "e", "r", "g", "u", "n", "t", "a", "\"", ":", " ", "\"", "l", "i", "s", "t", "a", "r", "\"", "}">>
JsonEmptyObject == <<"{", "}">>
JsonList == <<"[", "1", "]">>
JsonCutShort == <<"{", "\"", "p", "e", "r", "g", "u", "n", "t", "a", "\"", ":", " ">>

\* json.loads on the argument texts of the model: an object decodes to a
\* dict, a list to a list, and a text that is not JSON raises
\* JSONDecodeError.
JsonLoads(text) ==
    CASE text = JsonQuestion -> [ok |-> TRUE, value |-> DictArgs(TRUE, <<"l", "i", "s", "t", "a", "r">>)]
      [] text = JsonEmptyObject -> [ok |-> TRUE, value |-> DictArgs(FALSE, <<>>)]
      [] text = JsonList -> [ok |-> TRUE, value |-> [kind |-> "list", has |-> FALSE,
                                                      pergunta |-> <<>>, text |-> <<>>]]
      [] OTHER -> [ok |-> FALSE, value |-> NoArgs]

ToolCalls ==
    { [nome |-> "ExecSql", args |-> DictArgs(TRUE, <<"l", "i", "s", "t", "a", "r">>)],
      [nome |-> "ExecSql", args |-> DictArgs(TRUE, <<>>)],
      [nome |-> "ExecSql", args |-> DictArgs(FALSE, <<>>)],
      [nome |-> "ExecSql", args |-> StrArgs(JsonQuestion)],
      [nome |-> "ExecSql", args |-> StrArgs(JsonCutShort)],
      [nome |-> "ExecSql", args |-> StrArgs(JsonList)],
      [nome |-> "ExecSql", args |-> NoArgs],
      [nome |-> "Outra", args |-> DictArgs(TRUE, <<"l", "i", "s", "t", "a", "r">>)] }

\* The content of a chunk (empty when the chunk carries none).
Contents == {<<>>, <<"O", "l", "a">>, <<" ">>}

\* Lines 243-249: the arguments of a call as the loop sees them after
\* decoding; ok is FALSE when json.loads raised JSONDecodeError.
DecodedArgs(call) ==
    CASE call.args.kind = "absent" -> JsonLoads(JsonEmptyObject)
      [] call.args.kind = "str" -> JsonLoads(call.args.text)
      [] OTHER -> [ok |-> TRUE, value |-> call.args]

\* Lines 242-255: what the loop body does with one tool call: "skip" (line
\* 249), "ignore" (another tool), "raise" (the arguments decoded to
\* something without .get), "erro" (line 254) or "ai_sql" (line 255).
ProcessCall(call) ==
    LET dec == DecodedArgs(call)
    IN  IF ~dec.ok THEN "skip"
        ELSE IF call.nome # "ExecSql" THEN "ignore"
        ELSE IF dec.value.kind # "dict" THEN "raise"
        ELSE IF ~dec.value.has \/ dec.value.pergunta = <<>> THEN "erro"
        ELSE "ai_sql"

\* Line 257
AnswerReturn(text) ==
    [resposta |-> IF Strip(text) # <<>> THEN Strip(text) ELSE <<"S", "e", "m", " ", "r", "e", "s", "p", "o", "s", "t", "a", " ", "g", "e", "r", "a", "d", "a">>]

\* Lines 92-95: seguro_json on the dict processar_com_tools returns.
SeguroJson(obj) == obj

\* Lines 290-309: the branch sql_cmd takes on a dict.
Branch(r) ==
    IF "erro" \in DOMAIN r THEN "erro"
    ELSE IF "resultado" \in DOMAIN r THEN "resultado"
    ELSE IF "status" \in DOMAIN r THEN "status"
    ELSE IF "resposta" \in DOMAIN r THEN "resposta"
    ELSE "unexpected"

\* The sign the reply of a branch opens with.
MarkerOf(branch) ==
    CASE branch = "erro" -> CrossMark
      [] branch \in {"resultado", "status"} -> CheckMark
      [] branch = "unexpected" -> InfoSign
      [] OTHER -> "none"

SqlCommand == <<"/", "s", "q", "l">>

SqlTexts == { <<"/", "s", "q", "l">>, <<"/", "s", "q", "l", " ", " ", " ">>, <<"/", "s", "q", "l", " ", "l", "i", "s", "t", "a", "r">>, <<"/", "s", "q", "l", " ", "/", "s", "q", "l">> }

ModelReplies ==
    { Fence \o <<"s", "q", "l", "\n">> \o StmtSelectAll \o <<"\n">> \o Fence,
      StmtSelectLower,
      <<"C", "l", "a", "r", "o", "!", "\n">> \o Fence \o <<"s", "q", "l", "\n">> \o StmtInsert \o <<"\n">> \o Fence \o <<"\n">>,
      Fence \o <<"\n">> \o StmtUpdate \o <<"\n">> \o Fence,
      StmtDelete,
      StmtNoTable,
      StmtProse,
      <<>> }

InitBot ==
    /\ bpc = "idle"
    /\ msg = [id |-> 0, text |-> <<>>]
    /\ pergunta = <<>>
    /\ nchunks = 0
    /\ ncalls = 0
    /\ resposta = <<>>
    /\ query = <<>>
    /\ retorno = NoReturn
    /\ replies = <<>>
    /\ db = EmptyDb
    /\ txn = EmptyDb
    /\ exc = "none"
    /\ openConns = 0
    /\ connects = 0
    /\ dbAtCall = EmptyDb
    /\ written = EmptyDb
    /\ errors = {}
    /\ replyFailed = FALSE
    /\ ExtractIdle
    /\ FmtIdle
    /\ VoiceIdle

\* Lines 278-285: a /sql message arrives; an empty question is answered
\* with the usage text, any other goes to processar_com_tools.  The locals
\* of the previous message's calls are gone.
SqlCmd ==
    /\ bpc \in {"idle", "done"}
    /\ msg.id < MaxMsgs
    /\ \E text \in SqlTexts :
          /\ msg' = [id |-> msg.id + 1, text |-> text]
          /\ pergunta' = Strip(Replace(text, SqlCommand, <<>>))
          /\ IF pergunta' = <<>>
             THEN /\ replies' = <<[to |-> msg.id + 1, marker |-> "none", branch |-> "usage"]>>
                  /\ bpc' = "done"
             ELSE /\ replies' = <<>>
                  /\ bpc' = "stream"
    /\ nchunks' = 0
    /\ ncalls' = 0
    /\ resposta' = <<>>
    /\ retorno' = NoReturn
    /\ errors' = {}
    /\ replyFailed' = FALSE
    /\ query' = <<>>
    /\ exc' = "none"
    /\ connects' = 0
    /\ dbAtCall' = db
    /\ conteudo' = <<>>
    /\ sql_query' = <<>>
    /\ resultado' = <<>>
    /\ colunas' = <<>>
    /\ tabela' = <<>>
    /\ UNCHANGED <<db, txn, openConns, written>>
    /\ UNCHANGED <<sql_again, xpc, fpc, voiceVars>>

\* Lines 237-240: the next chunk of the stream; its content is added to
\* resposta, and its tool calls, if it has any, are gone through next.
StreamChunk ==
    /\ bpc = "stream"
    /\ nchunks < MaxChunks
    /\ \E content \in Contents : resposta' = resposta \o content
    /\ nchunks' = nchunks + 1
    /\ ncalls' = 0
    /\ bpc' \in {"stream", "tool_calls"}
    /\ UNCHANGED <<msg, pergunta, query, retorno, replies, db, txn, exc, openConns,
                   connects, dbAtCall, written, errors, replyFailed>>
    /\ UNCHANGED <<extractVars, fmtVars, voiceVars>>

\* Lines 241-255: the loop body on the next tool call of the chunk.
ToolCall ==
    /\ bpc = "tool_calls"
    /\ ncalls < MaxCalls
    /\ \E call \in ToolCalls :
          LET out == ProcessCall(call)
          IN  /\ errors' = errors \cup (IF out = "skip" THEN {"MalformedArguments"} ELSE {})
                                  \cup (IF out = "erro" THEN {"EmptyInput"} ELSE {})
                                  \cup (IF out = "raise" THEN {"ModelError"} ELSE {})
              /\ CASE out \in {"skip", "ignore"} ->
                        /\ bpc' = "tool_calls"
                        /\ UNCHANGED retorno
                   [] out = "erro" ->
                        /\ retorno' = [erro |-> "Pergunta nao fornecida para ExecSql"]
                        /\ bpc' = "returned"
                   [] out = "raise" ->
                        /\ retorno' = [erro |-> "Erro ao processar"]
                        /\ bpc' = "returned"
                   [] out = "ai_sql" ->
                        /\ bpc' = "ai_sql"
                        /\ UNCHANGED retorno
    /\ ncalls' = ncalls + 1
    /\ UNCHANGED <<msg, pergunta, nchunks, resposta, query, replies, db, txn, exc,
                   openConns, connects, dbAtCall, written, replyFailed>>
    /\ UNCHANGED <<extractVars, fmtVars, voiceVars>>

\* Line 241: the chunk has no further tool call.
ToolCallsEnd ==
    /\ bpc = "tool_calls"
    /\ ncalls >= 1
    /\ bpc' = "stream"
    /\ UNCHANGED <<msg, pergunta, nchunks, ncalls, resposta, query, retorno, replies, db,
                   txn, exc, openConns, connects, dbAtCall, written, errors, replyFailed>>
    /\ UNCHANGED <<extractVars, fmtVars, voiceVars>>

\* Lines 259-261: ollama.chat or the stream raises.
StreamRaise ==
    /\ bpc = "stream"
    /\ retorno' = [erro |-> "Erro ao processar"]
    /\ errors' = errors \cup {"ModelError"}
    /\ bpc' = "returned"
    /\ UNCHANGED <<msg, pergunta, nchunks, ncalls, resposta, query, replies, db, txn, exc,
                   openConns, connects, dbAtCall, written, replyFailed>>
    /\ UNCHANGED <<extractVars, fmtVars, voiceVars>>

\* Line 257: the stream ends without a tool call having returned.
StreamEnd ==
    /\ bpc = "stream"
    /\ retorno' = AnswerReturn(resposta)
    /\ bpc' = "returned"
    /\ UNCHANGED <<msg, pergunta, nchunks, ncalls, resposta, query, replies, db, txn, exc,
                   openConns, connects, dbAtCall, written, errors, replyFailed>>
    /\ UNCHANGED <<extractVars, fmtVars, voiceVars>>

\* Lines 175-198: AI_SQL gets the reply, extracts the statement and calls
\* executar_sql with it.
AiSqlReply ==
    /\ bpc = "ai_sql"
    /\ \E reply \in ModelReplies :
          /\ conteudo' = reply
          /\ sql_query' = ExtractSql(reply)
          /\ EnterExec(ExtractSql(reply))
    /\ UNCHANGED <<msg, pergunta, nchunks, ncalls, resposta, replies, db, txn,
                   openConns, written, errors, replyFailed>>
    /\ UNCHANGED <<sql_again, xpc, fmtVars, voiceVars>>

\* Lines 200-202: ollama.chat raises inside AI_SQL.
AiSqlRaise ==
    /\ bpc = "ai_sql"
    /\ retorno' = [erro |-> "Erro ao processar pergunta"]
    /\ errors' = errors \cup {"ModelError"}
    /\ bpc' = "returned"
    /\ UNCHANGED <<msg, pergunta, nchunks, ncalls, resposta, query, replies, db, txn, exc,
                   openConns, connects, dbAtCall, written, replyFailed>>
    /\ UNCHANGED <<extractVars, fmtVars, voiceVars>>

\* Lines 285-315: sql_cmd replies according to the keys of the dict; the
\* rows branch renders the table first.  bot.reply_to may raise.
Dispatch ==
    /\ bpc = "returned"
    /\ LET r == SeguroJson(retorno)
           branch == Branch(r)
       IN  /\ IF branch = "resultado"
              THEN /\ resultado' = [i \in DOMAIN r.resultado |-> TupleRow(r.resultado[i])]
                   /\ colunas' = r.colunas
                   /\ tabela' = FormatarResultado(resultado', colunas')
              ELSE UNCHANGED <<resultado, colunas, tabela>>
           /\ \/ /\ replies' = Append(replies, [to |-> msg.id, marker |-> MarkerOf(branch),
                                                branch |-> branch])
                 /\ bpc' = "done"
                 /\ UNCHANGED replyFailed
              \/ /\ replyFailed' = TRUE
                 /\ bpc' = "except"
                 /\ UNCHANGED replies
    /\ UNCHANGED <<msg, pergunta, nchunks, ncalls, resposta, query, retorno, db, txn, exc,
                   openConns, connects, dbAtCall, written, errors>>
    /\ UNCHANGED <<extractVars, fpc, voiceVars>>

\* Lines 317-319: the handler of an exception raised in the try block
\* replies with the error; that reply may raise too, and then the
\* exception leaves the handler.
ExceptReply ==
    /\ bpc = "except"
    /\ \/ replies' = Append(replies, [to |-> msg.id, marker |-> CrossMark, branch |-> "except"])
       \/ UNCHANGED replies
    /\ bpc' = "done"
    /\ UNCHANGED <<msg, pergunta, nchunks, ncalls, resposta, query, retorno, db, txn, exc,
                   openConns, connects, dbAtCall, written, errors, replyFailed>>
    /\ UNCHANGED <<extractVars, fmtVars, voiceVars>>

NextBot ==
    \/ SqlCmd
    \/ StreamChunk
    \/ ToolCall
    \/ ToolCallsEnd
    \/ StreamRaise
    \/ StreamEnd
    \/ AiSqlReply
    \/ AiSqlRaise
    \/ ExecGuard
    \/ ExecConnect
    \/ ExecExecute
    \/ ExecCommit
    \/ ExecExitWith
    \/ ExecReturn
    \/ Finalize
    \/ Dispatch
    \/ ExceptReply

SpecBot == InitBot /\ [][NextBot]_vars

Discriminating == {"erro", "resultado", "status", "resposta"}

\* C10: every dict returned by executar_sql, AI_SQL and processar_com_tools
\* carries exactly one of the keys erro, resultado, status, resposta, and
\* every reply sql_cmd sends for a dict comes from one of the four branches
\* of those keys, never from the unexpected-return branch.
C10_OneOutcomeKey ==
    /\ "pending" \notin DOMAIN retorno =>
           Cardinality(DOMAIN retorno \cap Discriminating) = 1
    /\ \A i \in DOMAIN replies :
           replies[i].branch \in Discriminating \cup {"usage", "except"}
    /\ (bpc = "done" /\ ~replyFailed /\ "pending" \notin DOMAIN retorno) =>
           /\ Len(replies) = 1
           /\ replies[1].branch \in DOMAIN retorno \cap Discriminating

\* A tool call that went through AI_SQL and executar_sql, the rows of a
\* non-empty teste being replied from the resultado branch.
C10_Witness ==
    /\ bpc = "done"
    /\ replies # <<>>
    /\ replies[1].branch = "resultado"
    /\ retorno.resultado # <<>>
    /\ connects = 1

\* C6 as stated: when an error of the taxonomy occurred while the message
\* was handled and the handler is done (bot.reply_to not having failed),
\* a reply to that message opens with the failure marker.
C6_ErrorsRepliedWithMarker ==
    (bpc = "done" /\ errors # {} /\ ~replyFailed) =>
        \E i \in DOMAIN replies :
            /\ replies[i].to = msg.id
            /\ replies[i].marker = CrossMark

-----------------------------------------------------------------------------
(* handle_voice                                                            *)

\* Voice messages handled over a behaviour.
MaxVoice == 2

SpeechSign == "U+1F5E3"

\* The name tempfile.NamedTemporaryFile(suffix='.ogg') gives the file of the
\* n-th message.
TempName(n) == <<"/", "t", "m", "p", "/", "t", "m", "p">> \o StrNat(n) \o <<".", "o", "g", "g">>

\* The cleanup loop running over ogg_path only.
CleanupPathsOggOnly(ogg, wav) == {ogg} \ {None}

\* Line 410: the paths the cleanup loop goes through, None left out (the
\* test of line 411).
CleanupPaths(ogg, wav) == {ogg, wav} \ {None}

VoiceReply(marker, kind) == [to |-> vmsg, marker |-> marker, kind |-> kind]

InitVoice ==
    /\ vpc = "idle"
    /\ vmsg = 0
    /\ ogg_path = None
    /\ wav_path = None
    /\ files = {}
    /\ returncode = 0
    /\ wavSize = "absent"
    /\ vreplies = <<>>
    /\ propagating = FALSE
    /\ created = {}
    /\ vReplyFailed = FALSE
    /\ ExtractIdle
    /\ FmtIdle
    /\ BotIdle

\* Lines 324-326: a voice message arrives.
VoiceMsg ==
    /\ vpc \in {"idle", "done"}
    /\ vmsg < MaxVoice
    /\ vmsg' = vmsg + 1
    /\ ogg_path' = None
    /\ wav_path' = None
    /\ files' = {}
    /\ returncode' = 0
    /\ wavSize' = "absent"
    /\ vreplies' = <<>>
    /\ propagating' = FALSE
    /\ created' = {}
    /\ vReplyFailed' = FALSE
    /\ vpc' = "download"
    /\ UNCHANGED <<extractVars, fmtVars, botVars>>

\* Lines 330-331: get_file and download_file; either may raise.
Download ==
    /\ vpc = "download"
    /\ vpc' \in {"tempfile", "except_outer"}
    /\ UNCHANGED <<vmsg, ogg_path, wav_path, files, returncode, wavSize, vreplies,
                   propagating, created, vReplyFailed>>
    /\ UNCHANGED <<extractVars, fmtVars, botVars>>

\* Lines 334-350: the temporary .ogg file is created and written, wav_path
\* derived from its name, the ffmpeg command put together.  Creating the
\* file may raise (nothing on disk, ogg_path still None), writing it may
\* raise (file on disk, wav_path still None), get_ffmpeg_exe may raise
\* (both paths set).
Prepare ==
    /\ vpc = "tempfile"
    /\ \/ /\ vpc' = "except_outer"
          /\ UNCHANGED <<ogg_path, wav_path, files, created>>
       \/ /\ ogg_path' = TempName(vmsg)
          /\ files' = files \cup {TempName(vmsg)}
          /\ created' = created \cup {TempName(vmsg)}
          /\ \/ /\ vpc' = "except_outer"
                /\ UNCHANGED wav_path
             \/ /\ wav_path' = Replace(TempName(vmsg), <<".", "o", "g", "g">>, <<".", "w", "a", "v">>)
                /\ vpc' \in {"ffmpeg", "except_outer"}
    /\ UNCHANGED <<vmsg, returncode, wavSize, vreplies, propagating, vReplyFailed>>
    /\ UNCHANGED <<extractVars, fmtVars, botVars>>

\* Lines 353-357: subprocess.run(ffmpeg ...).  It may raise; it may exit
\* non-zero, with or without a partial .wav file; it may exit zero, the
\* .wav file being there with data, empty or missing.
RunFfmpeg ==
    /\ vpc = "ffmpeg"
    /\ \/ /\ vpc' = "except_outer"
          /\ UNCHANGED <<returncode, wavSize, files, created>>
       \/ /\ returncode' \in {0, 1}
          /\ wavSize' \in {"absent", "empty", "data"}
          /\ files' = IF wavSize' = "absent" THEN files ELSE files \cup {wav_path}
          /\ created' = IF wavSize' = "absent" THEN created ELSE created \cup {wav_path}
          /\ vpc' = "check_returncode"
    /\ UNCHANGED <<vmsg, ogg_path, wav_path, vreplies, propagating, vReplyFailed>>
    /\ UNCHANGED <<extractVars, fmtVars, botVars>>

\* Lines 360-376: a non-zero exit status, and a missing or empty .wav file,
\* are answered with an error and the handler returns; the reply may raise.
CheckConversion ==
    /\ vpc = "check_returncode"
    /\ IF returncode # 0 \/ wav_path \notin files \/ wavSize = "empty"
       THEN \/ /\ vreplies' = Append(vreplies, VoiceReply(CrossMark,
                                  IF returncode # 0 THEN "ffmpeg" ELSE "wav"))
               /\ vpc' = "finally"
               /\ UNCHANGED vReplyFailed
            \/ /\ vReplyFailed' = TRUE
               /\ vpc' = "except_outer"
               /\ UNCHANGED vreplies
       ELSE /\ vpc' = "transcribe"
            /\ UNCHANGED <<vreplies, vReplyFailed>>
    /\ UNCHANGED <<vmsg, ogg_path, wav_path, files, returncode, wavSize, propagating, created>>
    /\ UNCHANGED <<extractVars, fmtVars, botVars>>

\* Lines 379-389: model.transcribe and the reply with the text, or with the
\* warning when the text is empty.  transcribe may raise FileNotFoundError
\* or another exception, and the reply may raise: all go to the handlers of
\* lines 390-399.
Transcribe ==
    /\ vpc = "transcribe"
    /\ \/ /\ \E r \in {VoiceReply(SpeechSign, "text"), VoiceReply(WarnSign, "empty")} :
                vreplies' = Append(vreplies, r)
          /\ vpc' = "finally"
          /\ UNCHANGED vReplyFailed
       \/ /\ vReplyFailed' = TRUE
          /\ vpc' = "except_inner"
          /\ UNCHANGED vreplies
       \/ /\ vpc' = "except_inner"
          /\ UNCHANGED <<vreplies, vReplyFailed>>
    /\ UNCHANGED <<vmsg, ogg_path, wav_path, files, returncode, wavSize, propagating, created>>
    /\ UNCHANGED <<extractVars, fmtVars, botVars>>

\* Lines 390-399: the handlers of the inner try reply with the error; when
\* that reply raises, the exception goes to the outer handlers.
ExceptInner ==
    /\ vpc = "except_inner"
    /\ \/ /\ vreplies' = Append(vreplies, VoiceReply(CrossMark, "transcribe"))
          /\ vpc' = "finally"
          /\ UNCHANGED vReplyFailed
       \/ /\ vReplyFailed' = TRUE
          /\ vpc' = "except_outer"
          /\ UNCHANGED vreplies
    /\ UNCHANGED <<vmsg, ogg_path, wav_path, files, returncode, wavSize, propagating, created>>
    /\ UNCHANGED <<extractVars, fmtVars, botVars>>

\* Lines 401-407: the outer handlers reply with the error; when that reply
\* raises, the exception leaves the handler, through the finally block.
ExceptOuter ==
    /\ vpc = "except_outer"
    /\ \/ /\ vreplies' = Append(vreplies, VoiceReply(CrossMark, "process"))
          /\ UNCHANGED <<propagating, vReplyFailed>>
       \/ /\ propagating' = TRUE
          /\ vReplyFailed' = TRUE
          /\ UNCHANGED vreplies
    /\ vpc' = "finally"
    /\ UNCHANGED <<vmsg, ogg_path, wav_path, files, returncode, wavSize, created>>
    /\ UNCHANGED <<extractVars, fmtVars, botVars>>

\* Lines 408-415: the finally block removes every path that is set and
\* exists; then the handler returns, or the exception goes on.  os.remove
\* on the closed files of this handler succeeds (lines 414-415 would only
\* log a failure).
Cleanup ==
    /\ vpc = "finally"
    /\ files' = files \ CleanupPaths(ogg_path, wav_path)
    /\ vpc' = "done"
    /\ UNCHANGED <<vmsg, ogg_path, wav_path, returncode, wavSize, vreplies, propagating,
                   created, vReplyFailed>>
    /\ UNCHANGED <<extractVars, fmtVars, botVars>>

NextVoice ==
    \/ VoiceMsg
    \/ Download
    \/ Prepare
    \/ RunFfmpeg
    \/ CheckConversion
    \/ Transcribe
    \/ ExceptInner
    \/ ExceptOuter
    \/ Cleanup

SpecVoice == InitVoice /\ [][NextVoice]_vars

====
